---- MODULE Spec2Model ----
(***************************************************************************)
(* Fall detection sketch (arduino/gyro_MPU_6050_logic): the sample-rate    *)
(* gate, the complementary filter and the three-state fall classifier of   *)
(* loop(), as a state machine.                                             *)
(*                                                                         *)
(* Number representation (the sketch computes in float / unsigned long):   *)
(*   time          timer ticks of 4 microseconds (the resolution of        *)
(*                 micros() on a 16 MHz board); millis() = ticks / 250     *)
(*   acceleration  0.01 m/s^2          angular rate  0.001 rad/s           *)
(*   g-force       0.00001 g           angles        0.001 degree          *)
(*   radians       0.000001 rad                                            *)
(* All clock reads of one loop() call return the same value.               *)
(***************************************************************************)
EXTENDS Integers, Sequences, FiniteSets, TLC

VARIABLES
    pc,                \* where the sketch is: "setup", "loop" or "halt" (the while (1) of setup)
    clock,             \* hardware time since boot, in 4 us timer ticks
    lastSampleMicros,  \* unsigned long lastSampleMicros (in timer ticks)
    lastTimeSet,       \* whether the function-local static lastTime is initialised
    lastTime,          \* static unsigned long lastTime (in timer ticks)
    state,             \* FallState state
    impactTime,        \* unsigned long impactTime (ms)
    stillStartTime,    \* unsigned long stillStartTime (ms), 0 = unset
    pitch, roll,       \* float pitch, roll (millidegrees)
    pitchBefore, rollBefore,   \* float pitchBefore, rollBefore (millidegrees)
    \* ---- observation of the run (not program state) ----
    calls,             \* number of loop() calls so far
    prevState,         \* state at the start of the last loop() call
    prevStill,         \* stillStartTime at the start of the last loop() call
    ran,               \* the last loop() call passed the sample-rate gate
    fired,             \* the last loop() call called triggerFall()
    readOk,            \* the sensor read of the last processed tick succeeded
    sample,            \* the sample the last processed tick worked on
    falls,             \* number of triggerFall() calls so far
    episodeFalls,      \* triggerFall() calls since the last NORMAL -> IMPACT_DETECTED
    arms,              \* number of NORMAL -> IMPACT_DETECTED transitions
    returns,           \* number of transitions back to NORMAL
    crossings,         \* number of ticks on which accelMag rose above the threshold
    prevAbove,         \* accelMag > IMPACT_THRESHOLD_G on the previous processed tick
    ticks,             \* number of processed ticks (calls that passed the gate)
    lastDt,            \* dt of the last processed tick, in timer ticks
    tickClock,         \* clock at the last processed tick
    prevTickClock,     \* clock at the processed tick before the last one
    interrupted        \* a tick with gyroMag >= MOTION_THRESHOLD was processed since
                       \* stillStartTime was set

progVars == <<lastSampleMicros, lastTimeSet, lastTime, state, impactTime,
              stillStartTime, pitch, roll, pitchBefore, rollBefore>>
obsVars  == <<calls, prevState, prevStill, ran, fired, readOk, sample, falls, episodeFalls, arms,
              returns, crossings, prevAbove, ticks, lastDt, tickClock, prevTickClock,
              interrupted>>
vars     == <<pc, clock, progVars, obsVars>>

-----------------------------------------------------------------------------
(* Tunable parameters, gyro_MPU_6050_logic.ino lines 8-13 *)
SAMPLE_RATE_HZ      == 200
IMPACT_THRESHOLD_G  == 280000      \* 2.8 g
ANGLE_THRESHOLD_DEG == 45000       \* 45.0 degrees
MOTION_THRESHOLD    == 150         \* 0.15 rad/s
INACTIVITY_TIME_MS  == 3000
IMPACT_TIMEOUT_MS   == 6000

(* Clock: micros() advances in steps of 4 us and is a 32-bit counter, so in
   timer ticks it wraps at 2^30; millis() is the tick count over 250. *)
MicrosPerTick == 4
MicrosWrap    == 2^30
TicksPerMs    == 1000 \div MicrosPerTick

micros(c) == c % MicrosWrap
millis(c) == c \div TicksPerMs

\* unsigned subtraction of two micros() values, in timer ticks
SubMicros(a, b) == (a - b) % MicrosWrap

\* 1000000 / SAMPLE_RATE_HZ microseconds, in timer ticks (line 51)
SampleInterval == (1000000 \div SAMPLE_RATE_HZ) \div MicrosPerTick

\* variant: the gate written as micros() < lastSampleMicros + interval
InsideIntervalBySum(us, last) == us < (last + SampleInterval) % MicrosWrap

\* line 51: micros() - lastSampleMicros < 1000000 / SAMPLE_RATE_HZ
InsideInterval(us, last) == SubMicros(us, last) < SampleInterval

-----------------------------------------------------------------------------
(* Arithmetic helpers *)

\* Arduino's abs() macro
abs(x) == IF x > 0 THEN x ELSE -x

\* division rounding toward zero, as a float result is stored at model resolution
Quot(a, b) == IF a >= 0 THEN a \div b ELSE -((-a) \div b)

RECURSIVE SqrtIter(_, _, _)
SqrtIter(n, lo, hi) ==
    IF lo >= hi THEN lo
    ELSE LET mid == (lo + hi + 1) \div 2
         IN  IF mid * mid <= n THEN SqrtIter(n, mid, hi) ELSE SqrtIter(n, lo, mid - 1)

\* sqrt(), to the model's resolution (largest r with r*r <= n)
sqrt(n) == SqrtIter(n, 0, 46340)

Pi     == 3141593     \* microradians
HalfPi == 1570796

\* atan(n/d) for 0 <= n <= d, d > 0, in microradians:
\* (pi/4) z + 0.273 z (1 - z), exact at z = 0 and z = 1
AtanUnit(n, d) ==
    LET z == (n * 1000) \div d
    IN  (785398 * z) \div 1000 + (273 * z * (1000 - z)) \div 1000

\* atan2(y, x) in microradians
atan2(y, x) ==
    IF x = 0 /\ y = 0 THEN 0
    ELSE LET ay   == abs(y)
             ax   == abs(x)
             base == IF ay <= ax THEN AtanUnit(ay, ax) ELSE HalfPi - AtanUnit(ax, ay)
             ang  == IF x >= 0 THEN base ELSE Pi - base
         IN  IF y < 0 THEN -ang ELSE ang

\* x * 57.2958 for x in microradians, in millidegrees
RadToDeg(x) ==
    LET m == abs(x)
        q == m \div 1000
        r == m % 1000
        d == q * 57 + (q * 2958 + r * 573) \div 10000
    IN  IF x < 0 THEN -d ELSE d

-----------------------------------------------------------------------------
(* Signal computations of one tick, lines 59-90.  A sample is a record
   [ax, ay, az, gx, gy, gz]. *)

\* line 60-64: sqrt(ax^2 + ay^2 + az^2) / 9.81
accelMag(s) == (sqrt(s.ax * s.ax + s.ay * s.ay + s.az * s.az) * 100000) \div 981

\* line 67-70: abs(gx) + abs(gy) + abs(gz)
gyroMag(s) == abs(s.gx) + abs(s.gy) + abs(s.gz)

\* line 73-77: atan2(ax, sqrt(ay^2 + az^2)) * 57.2958
pitchAcc(s) == RadToDeg(atan2(s.ax, sqrt(s.ay * s.ay + s.az * s.az)))

\* line 79-82: atan2(ay, az) * 57.2958
rollAcc(s) == RadToDeg(atan2(s.ay, s.az))

\* variant: lastTime starts at 0 instead of the time of the first tick
dtTicksFromBoot(us, set, last) == SubMicros(us, last)

\* line 85-86: static lastTime = micros() on the first call, then
\* dt = micros() - lastTime, here in timer ticks
dtTicks(us, set, last) == IF set THEN SubMicros(us, last) ELSE 0

\* rate * dt * 57.2958: rate in mrad/s, dt in timer ticks, result in millidegrees
GyroStep(rate, dt) ==
    LET ms   == dt \div TicksPerMs                       \* whole milliseconds of dt
        us   == (dt % TicksPerMs) * MicrosPerTick        \* and the microseconds left
        m    == abs(rate)
        urad == m * ms + (m * us) \div 1000
        d    == RadToDeg(urad)
    IN  IF rate < 0 THEN -d ELSE d

\* line 89-90: 0.98 * (prev + rate * dt * 57.2958) + 0.02 * acc
filter(prev, rate, dt, acc) == Quot(98 * (prev + GyroStep(rate, dt)) + 2 * acc, 100)

-----------------------------------------------------------------------------
(* The classifier, lines 93-135.  c is the classifier's record
   [state, impactTime, stillStartTime, pitchBefore, rollBefore]; each case
   yields the record after the tick, with fall = triggerFall() was called. *)

\* line 96
IsImpact(am) == am > IMPACT_THRESHOLD_G

\* lines 106-107
AngleExceeded(p, r, pb, rb) ==
    \/ abs(p - pb) > ANGLE_THRESHOLD_DEG
    \/ abs(r - rb) > ANGLE_THRESHOLD_DEG

\* line 109
IsStill(gm) == gm < MOTION_THRESHOLD

\* variant: the stillness window confirmed already at exactly INACTIVITY_TIME_MS
ConfirmedAtLeast(now, still) == now - still >= INACTIVITY_TIME_MS

\* line 113
Confirmed(now, still) == now - still > INACTIVITY_TIME_MS

\* line 122
TimedOut(now, impact) == now - impact > IMPACT_TIMEOUT_MS

\* variant: recovery already at exactly twice the motion threshold
RecoveredAtLeast(gm) == gm >= MOTION_THRESHOLD * 2

\* line 130
Recovered(gm) == gm > MOTION_THRESHOLD * 2

\* variant: the impact does not capture the baseline orientation
caseNormalNoBaseline(c, now, am, p, r) ==
    IF IsImpact(am)
    THEN [state |-> "IMPACT_DETECTED", impactTime |-> now,
          stillStartTime |-> c.stillStartTime,
          pitchBefore |-> c.pitchBefore, rollBefore |-> c.rollBefore, fall |-> FALSE]
    ELSE [state |-> c.state, impactTime |-> c.impactTime,
          stillStartTime |-> c.stillStartTime,
          pitchBefore |-> c.pitchBefore, rollBefore |-> c.rollBefore, fall |-> FALSE]

\* lines 95-103
caseNormal(c, now, am, p, r) ==
    IF IsImpact(am)
    THEN [state |-> "IMPACT_DETECTED", impactTime |-> now,
          stillStartTime |-> c.stillStartTime,
          pitchBefore |-> p, rollBefore |-> r, fall |-> FALSE]
    ELSE [state |-> c.state, impactTime |-> c.impactTime,
          stillStartTime |-> c.stillStartTime,
          pitchBefore |-> c.pitchBefore, rollBefore |-> c.rollBefore, fall |-> FALSE]

\* variant: a confirmed fall does not leave IMPACT_DETECTED
stillnessBlockNoExit(c, now, gm, p, r) ==
    IF AngleExceeded(p, r, c.pitchBefore, c.rollBefore)
    THEN IF IsStill(gm)
         THEN LET still == IF c.stillStartTime = 0 THEN now ELSE c.stillStartTime
              IN  IF Confirmed(now, still)
                  THEN [state |-> c.state, stillStartTime |-> still, fall |-> TRUE]
                  ELSE [state |-> c.state, stillStartTime |-> still, fall |-> FALSE]
         ELSE [state |-> c.state, stillStartTime |-> 0, fall |-> FALSE]
    ELSE [state |-> c.state, stillStartTime |-> c.stillStartTime, fall |-> FALSE]

\* variant: motion does not clear the stillness timer
stillnessBlockNoReset(c, now, gm, p, r) ==
    IF AngleExceeded(p, r, c.pitchBefore, c.rollBefore) /\ IsStill(gm)
    THEN LET still == IF c.stillStartTime = 0 THEN now ELSE c.stillStartTime
         IN  IF Confirmed(now, still)
             THEN [state |-> "POST_FALL", stillStartTime |-> still, fall |-> TRUE]
             ELSE [state |-> c.state, stillStartTime |-> still, fall |-> FALSE]
    ELSE [state |-> c.state, stillStartTime |-> c.stillStartTime, fall |-> FALSE]

\* variant: the stillness timer is never started (lines 110-111 left out)
stillnessBlockNoStart(c, now, gm, p, r) ==
    IF AngleExceeded(p, r, c.pitchBefore, c.rollBefore)
    THEN IF IsStill(gm)
         THEN IF Confirmed(now, c.stillStartTime)
              THEN [state |-> "POST_FALL", stillStartTime |-> c.stillStartTime, fall |-> TRUE]
              ELSE [state |-> c.state, stillStartTime |-> c.stillStartTime, fall |-> FALSE]
         ELSE [state |-> c.state, stillStartTime |-> 0, fall |-> FALSE]
    ELSE [state |-> c.state, stillStartTime |-> c.stillStartTime, fall |-> FALSE]

\* lines 106-120: the orientation / stillness block
stillnessBlock(c, now, gm, p, r) ==
    IF AngleExceeded(p, r, c.pitchBefore, c.rollBefore)
    THEN IF IsStill(gm)
         THEN LET still == IF c.stillStartTime = 0 THEN now ELSE c.stillStartTime
              IN  IF Confirmed(now, still)
                  THEN [state |-> "POST_FALL", stillStartTime |-> still, fall |-> TRUE]
                  ELSE [state |-> c.state, stillStartTime |-> still, fall |-> FALSE]
         ELSE [state |-> c.state, stillStartTime |-> 0, fall |-> FALSE]
    ELSE [state |-> c.state, stillStartTime |-> c.stillStartTime, fall |-> FALSE]

\* variant: the timeout is skipped on a tick that confirmed a fall
timeoutBlockUnlessFall(b, now, impact) ==
    IF TimedOut(now, impact) /\ ~b.fall
    THEN [state |-> "NORMAL", stillStartTime |-> 0, fall |-> b.fall]
    ELSE b

\* variant: the timeout is not applied while a stillness window is running
timeoutBlockIfIdle(b, now, impact) ==
    IF TimedOut(now, impact) /\ b.stillStartTime = 0
    THEN [state |-> "NORMAL", stillStartTime |-> 0, fall |-> b.fall]
    ELSE b

\* variant: the timeout returns to NORMAL without clearing the stillness timer
timeoutBlockKeepTimer(b, now, impact) ==
    IF TimedOut(now, impact)
    THEN [state |-> "NORMAL", stillStartTime |-> b.stillStartTime, fall |-> b.fall]
    ELSE b

\* lines 122-125: the impact timeout, evaluated after the block above
timeoutBlock(b, now, impact) ==
    IF TimedOut(now, impact)
    THEN [state |-> "NORMAL", stillStartTime |-> 0, fall |-> b.fall]
    ELSE b

\* lines 105-126
caseImpactDetected(c, now, gm, p, r) ==
    LET b == timeoutBlock(stillnessBlock(c, now, gm, p, r), now, c.impactTime)
    IN  [state |-> b.state, impactTime |-> c.impactTime,
         stillStartTime |-> b.stillStartTime,
         pitchBefore |-> c.pitchBefore, rollBefore |-> c.rollBefore, fall |-> b.fall]

\* variant: motion in POST_FALL re-enters IMPACT_DETECTED
casePostFallRearm(c, gm) ==
    IF Recovered(gm)
    THEN [state |-> "IMPACT_DETECTED", impactTime |-> c.impactTime, stillStartTime |-> 0,
          pitchBefore |-> c.pitchBefore, rollBefore |-> c.rollBefore, fall |-> FALSE]
    ELSE [state |-> c.state, impactTime |-> c.impactTime,
          stillStartTime |-> c.stillStartTime,
          pitchBefore |-> c.pitchBefore, rollBefore |-> c.rollBefore, fall |-> FALSE]

\* lines 128-134
casePostFall(c, gm) ==
    IF Recovered(gm)
    THEN [state |-> "NORMAL", impactTime |-> c.impactTime, stillStartTime |-> 0,
          pitchBefore |-> c.pitchBefore, rollBefore |-> c.rollBefore, fall |-> FALSE]
    ELSE [state |-> c.state, impactTime |-> c.impactTime,
          stillStartTime |-> c.stillStartTime,
          pitchBefore |-> c.pitchBefore, rollBefore |-> c.rollBefore, fall |-> FALSE]

\* variant: a further impact in IMPACT_DETECTED captures time and baseline again
classifyRecapture(c, now, am, gm, p, r) ==
    CASE c.state = "NORMAL"          -> caseNormal(c, now, am, p, r)
      [] c.state = "IMPACT_DETECTED" ->
            IF IsImpact(am) THEN caseNormal(c, now, am, p, r)
            ELSE caseImpactDetected(c, now, gm, p, r)
      [] c.state = "POST_FALL"       -> casePostFall(c, gm)

\* line 93: switch (state)
classify(c, now, am, gm, p, r) ==
    CASE c.state = "NORMAL"          -> caseNormal(c, now, am, p, r)
      [] c.state = "IMPACT_DETECTED" -> caseImpactDetected(c, now, gm, p, r)
      [] c.state = "POST_FALL"       -> casePostFall(c, gm)

-----------------------------------------------------------------------------
(* loop(), lines 50-136: d is the time since the previous call of loop(),
   s the sample mpu.getEvent() leaves in a and g, ok whether the sensor read
   succeeded.  getEvent()'s result is not looked at (line 57), so a failed
   read is processed like any other, on whatever the buffers hold. *)

loop(d, s, ok) ==
    LET t   == clock + d
        us  == micros(t)
        now == millis(t)
    IN
    /\ pc = "loop"
    /\ pc' = pc
    /\ clock' = t
    /\ calls' = calls + 1
    /\ prevState' = state
    /\ prevStill' = stillStartTime
    /\ IF InsideInterval(us, lastSampleMicros)
       THEN \* line 51-52: inside the sample interval
            /\ ran' = FALSE
            /\ fired' = FALSE
            /\ UNCHANGED <<progVars, readOk, sample, falls, episodeFalls, arms,
                           returns, crossings, prevAbove, ticks, lastDt, tickClock,
                           prevTickClock, interrupted>>
       ELSE LET dt == dtTicks(us, lastTimeSet, lastTime)
                c  == [state |-> state, impactTime |-> impactTime,
                       stillStartTime |-> stillStartTime,
                       pitchBefore |-> pitchBefore, rollBefore |-> rollBefore]
            IN
            /\ lastSampleMicros' = us
            /\ lastTimeSet' = TRUE
            /\ lastTime' = us
            /\ pitch' = filter(pitch, s.gy, dt, pitchAcc(s))
            /\ roll' = filter(roll, s.gx, dt, rollAcc(s))
            /\ \E am \in {accelMag(s)} :
               \E n \in {classify(c, now, am, gyroMag(s), pitch', roll')} :
               \E armed \in {state = "NORMAL" /\ n.state = "IMPACT_DETECTED"} :
                  /\ state' = n.state
                  /\ impactTime' = n.impactTime
                  /\ stillStartTime' = n.stillStartTime
                  /\ pitchBefore' = n.pitchBefore
                  /\ rollBefore' = n.rollBefore
                  /\ fired' = n.fall
                  /\ falls' = falls + (IF n.fall THEN 1 ELSE 0)
                  /\ episodeFalls' = IF armed THEN 0
                                     ELSE episodeFalls + (IF n.fall THEN 1 ELSE 0)
                  /\ arms' = arms + (IF armed THEN 1 ELSE 0)
                  /\ returns' = returns + (IF state # "NORMAL" /\ n.state = "NORMAL"
                                           THEN 1 ELSE 0)
                  /\ crossings' = crossings + (IF IsImpact(am) /\ ~prevAbove
                                               THEN 1 ELSE 0)
                  /\ prevAbove' = IsImpact(am)
                  /\ interrupted' =
                        IF stillStartTime = 0 \/ (n.stillStartTime = 0 /\ ~n.fall)
                        THEN FALSE
                        ELSE interrupted \/ gyroMag(s) >= MOTION_THRESHOLD
            /\ ticks' = ticks + 1
            /\ lastDt' = dt
            /\ tickClock' = t
            /\ prevTickClock' = tickClock
            /\ ran' = TRUE
            /\ readOk' = ok
            /\ sample' = s

-----------------------------------------------------------------------------
(* Samples the sensor delivers *)

Sample(ax, ay, az, gx, gy, gz) ==
    [ax |-> ax, ay |-> ay, az |-> az, gx |-> gx, gy |-> gy, gz |-> gz]

Impact     == Sample(0, 0, 2943, 0, 0, 50)     \* 3.0 g, upright, still
Tumble     == Sample(981, 0, 0, 0, 1000, 0)    \* 1 g, pitching at 1 rad/s
LyingStill == Sample(981, 0, 0, 0, 0, 50)      \* 1 g, on its side, 0.05 rad/s
Edge150    == Sample(981, 0, 0, 50, 50, 50)    \* gyro magnitude exactly 0.15 rad/s
Edge300    == Sample(0, 981, 0, 300, 0, 0)     \* gyro magnitude exactly 0.30 rad/s, rolling

Samples == {Impact, Tumble, LyingStill, Edge150, Edge300}

\* time between two calls of loop(), in ms: inside the sample interval, and
\* delays that let the 3 s and 6 s windows pass within a few calls
GapsMs == {2, 1000, 3500}
Gaps   == {g * TicksPerMs : g \in GapsMs}

MaxCalls == 5

-----------------------------------------------------------------------------
(* The globals' initialisers (lines 22-30) *)
Globals ==
    /\ clock = 0
    /\ lastSampleMicros = 0
    /\ lastTimeSet = FALSE
    /\ lastTime = 0
    /\ state = "NORMAL"
    /\ impactTime = 0
    /\ stillStartTime = 0
    /\ pitch = 0 /\ roll = 0
    /\ pitchBefore = 0 /\ rollBefore = 0
    /\ calls = 0
    /\ prevState = "NORMAL"
    /\ prevStill = 0
    /\ ran = FALSE
    /\ fired = FALSE
    /\ readOk = TRUE
    /\ sample = Sample(0, 0, 0, 0, 0, 0)
    /\ falls = 0
    /\ episodeFalls = 0
    /\ arms = 0
    /\ returns = 0
    /\ crossings = 0
    /\ prevAbove = FALSE
    /\ ticks = 0
    /\ lastDt = 0
    /\ tickClock = 0
    /\ prevTickClock = 0
    /\ interrupted = FALSE

(* State after setup() has returned (mpu.begin() succeeded) *)
Init == Globals /\ pc = "loop"

\* every sensor read succeeds
Next == calls < MaxCalls /\ \E d \in Gaps, s \in Samples : loop(d, s, TRUE)

Spec == Init /\ [][Next]_vars

\* a sensor read may fail; the tick then works on an arbitrary sample
MaxCallsFault == 3

\* calls of loop() explored after a boot, and how long a halted sketch is followed
MaxCallsBoot == 2
MaxHaltMs == 8000

NextFault == calls < MaxCallsFault /\ \E d \in Gaps, s \in Samples, ok \in BOOLEAN : loop(d, s, ok)

SpecFault == Init /\ [][NextFault]_vars

(* setup(), lines 33-47: found is the result of mpu.begin().  When the sensor
   is not found the sketch prints a message and enters while (1), which it
   never leaves; otherwise setup() returns and the runtime starts calling
   loop(). *)
setup(found) ==
    /\ pc = "setup"
    /\ pc' = IF found THEN "loop" ELSE "halt"
    /\ UNCHANGED <<clock, progVars, obsVars>>

(* One more turn of while (1); at line 39: d timer ticks go by, nothing else
   happens. *)
halt(d) ==
    /\ pc = "halt"
    /\ clock \div TicksPerMs < MaxHaltMs
    /\ clock' = clock + d
    /\ UNCHANGED <<pc, progVars, obsVars>>

(* The sketch from power-up, the sensor present or not *)
InitBoot == Globals /\ pc = "setup"

NextBoot ==
    \/ \E found \in BOOLEAN : setup(found)
    \/ \E d \in Gaps : halt(d)
    \/ calls < MaxCallsBoot /\ \E d \in Gaps, s \in Samples : loop(d, s, TRUE)

SpecBoot == InitBoot /\ [][NextBoot]_vars

-----------------------------------------------------------------------------
(* Reference scenarios of the specification's testable properties: one tick
   every sample interval (5 ms); the impact falls on tick ImpactTick and t is
   the time in ms relative to it. *)

TickMs == 1000 \div SAMPLE_RATE_HZ

ImpactTick       == 200
ConfirmedTicks   == 800     \* ticks after the impact, confirmed-fall scenario (to t = 4000)
InterruptedTicks == 1100    \* ticks after the impact, interrupted scenario (to t = 5500)

Rest  == Sample(0, 0, 981, 0, 0, 50)       \* 1 g, upright, 0.05 rad/s
Drift == Sample(0, 0, 981, 0, 4120, 0)     \* pitching at 4.12 rad/s: about 50 degrees in 0.5 s
Spike == Sample(981, 0, 0, 0, 0, 500)      \* on its side, 0.5 rad/s

\* time of tick k relative to the impact, ms
Rel(k) == (k - ImpactTick) * TickMs

\* impact of 3.0 g at t = 0, pitch drifting to 50 degrees by t = 500,
\* then 0.05 rad/s on every tick
ConfirmedSample(t) ==
    CASE t < 0            -> Rest
      [] t = 0            -> Impact
      [] t > 0 /\ t < 500 -> Drift
      [] OTHER            -> LyingStill

\* the same with one spike to 0.5 rad/s at t = 2000
InterruptedSample(t) == IF t = 2000 THEN Spike ELSE ConfirmedSample(t)

NextConfirmed ==
    /\ calls < ImpactTick + ConfirmedTicks
    /\ loop(SampleInterval, ConfirmedSample(Rel(calls + 1)), TRUE)

SpecConfirmed == Init /\ [][NextConfirmed]_vars

NextInterrupted ==
    /\ calls < ImpactTick + InterruptedTicks
    /\ loop(SampleInterval, InterruptedSample(Rel(calls + 1)), TRUE)

SpecInterrupted == Init /\ [][NextInterrupted]_vars

(* A stream at the edge of the configured sensor ranges (lines 42-43:
   MPU6050_RANGE_8_G, MPU6050_RANGE_500_DEG): one tick every 5 ms, the device
   on its side and pitching at just under 500 deg/s. *)
AccelRange == 8 * 981      \* 8 g in 0.01 m/s^2
GyroRange  == 8726         \* 500 deg/s = 8.7266 rad/s, in mrad/s

InRange(s) ==
    /\ abs(s.ax) <= AccelRange /\ abs(s.ay) <= AccelRange /\ abs(s.az) <= AccelRange
    /\ abs(s.gx) <= GyroRange /\ abs(s.gy) <= GyroRange /\ abs(s.gz) <= GyroRange

Spin == Sample(981, 0, 0, 0, GyroRange, 0)

SpinTicks == 150

NextSpin ==
    /\ calls < SpinTicks
    /\ loop(SampleInterval, Spin, TRUE)

SpecSpin == Init /\ [][NextSpin]_vars

(* The sketch around the wrap of micros(): the board rests for one period of
   the counter less 3 ms, then loop() is called every 2 or 5 ms, so that
   processed ticks and gated calls fall on both sides of the wrap. *)
LongGap     == MicrosWrap - 3 * TicksPerMs
WrapGapsMs  == {2, 5}
WrapGaps    == {ms * TicksPerMs : ms \in WrapGapsMs}
WrapSamples == {Rest, Impact}

MaxCallsWrap == 6

NextWrap ==
    /\ calls < MaxCallsWrap
    /\ \E d \in (IF calls = 0 THEN {LongGap} ELSE WrapGaps), s \in WrapSamples :
          loop(d, s, TRUE)

SpecWrap == Init /\ [][NextWrap]_vars

(* A person lying close to the angle threshold: besides the impact, the
   tumble and lying still, the body sways back at 0.3 rad/s and creeps
   forward at 0.14 rad/s, just under MOTION_THRESHOLD. *)
SwayBack == Sample(981, 0, 0, 0, -300, 0)
Creep    == Sample(981, 0, 0, 0, 140, 0)

MotionSamples == {Impact, Tumble, LyingStill, SwayBack, Creep}
MotionGapsMs  == {1000, 2500}
MotionGaps    == {ms * TicksPerMs : ms \in MotionGapsMs}

MaxCallsMotion == 5

NextMotion ==
    /\ calls < MaxCallsMotion
    /\ \E d \in MotionGaps, s \in MotionSamples : loop(d, s, TRUE)

SpecMotion == Init /\ [][NextMotion]_vars

\* time of the last loop() call in a scenario, relative to the impact, ms
RelMs == millis(clock) - ImpactTick * TickMs

\* time of the last loop() call, ms
NowMs == millis(clock)

-----------------------------------------------------------------------------
(* Claims *)

\* the last loop() call took NORMAL -> IMPACT_DETECTED
Armed == ran /\ prevState = "NORMAL" /\ state = "IMPACT_DETECTED"

\* the angle condition of lines 106-107 on the last processed tick
AngleHolds ==
    \/ abs(pitch - pitchBefore) > ANGLE_THRESHOLD_DEG
    \/ abs(roll - rollBefore) > ANGLE_THRESHOLD_DEG

\* C1: at most one fall event per impact episode: triggerFall() is called at
\* most once since the last NORMAL -> IMPACT_DETECTED transition, and an
\* episode that leaves IMPACT_DETECTED through the timeout, on a tick that
\* confirms nothing, has emitted no fall event.
C1_AtMostOneFallPerEpisode ==
    /\ episodeFalls <= 1
    /\ (ran /\ prevState = "IMPACT_DETECTED" /\ state = "NORMAL" /\ ~fired)
          => episodeFalls = 0

\* C1 witness: an episode that has emitted its fall event
C1_Witness == fired /\ episodeFalls = 1 /\ arms = 1 /\ state = "POST_FALL"

\* C2 (as claimed): in the confirmed-fall scenario the single fall event is
\* emitted on the tick at t = 3500 ms and the state after it is POST_FALL.
C2_FallAt3500 ==
    /\ fired <=> RelMs = 3500
    /\ RelMs >= 3500 => (falls = 1 /\ state = "POST_FALL")

\* C2 (amended): in the confirmed-fall scenario exactly one fall event is
\* emitted, on the tick at t = 3505 ms, the first tick more than
\* INACTIVITY_TIME_MS after the stillness began at t = 500 ms; the state after
\* that tick is POST_FALL.
C2_FallAt3505 ==
    /\ fired <=> RelMs = 3505
    /\ RelMs < 3505 => falls = 0
    /\ RelMs >= 3505 => (falls = 1 /\ state = "POST_FALL")
    /\ (RelMs >= 500 /\ RelMs < 3505) =>
          (state = "IMPACT_DETECTED" /\ stillStartTime = impactTime + 500)

\* C2 witness: the fall event of the scenario
C2_Witness == fired /\ RelMs = 3505 /\ falls = 1 /\ state = "POST_FALL"

\* C3: timeout clears unconfirmed impacts: on the first tick more than
\* IMPACT_TIMEOUT_MS after the impact, reached in IMPACT_DETECTED (no fall
\* event so far), the state becomes NORMAL and no fall event is emitted for
\* the episode, that tick included.
C3_TimeoutEmitsNothing ==
    (ran /\ prevState = "IMPACT_DETECTED" /\ NowMs - impactTime > IMPACT_TIMEOUT_MS)
       => (state = "NORMAL" /\ ~fired /\ episodeFalls = 0)

\* C4 (as claimed): in the interrupted scenario no fall event is emitted at
\* t = 3500 ms and the single fall event is emitted at t = 5000 ms.
C4_FallAt5000 ==
    /\ RelMs = 3500 => ~fired
    /\ fired <=> RelMs = 5000

\* C4 (amended): in IMPACT_DETECTED with the angle condition holding, a tick
\* with gyro magnitude >= MOTION_THRESHOLD clears the stillness timer and the
\* next still tick restarts it from its own time; in the interrupted scenario
\* the spike at t = 2000 ms clears the timer, the tick at t = 2005 ms restarts
\* it, no fall event is emitted before, and the single fall event is emitted
\* on the tick at t = 5010 ms.
C4_FallAt5010 ==
    /\ (RelMs >= 500 /\ RelMs < 2000) => stillStartTime = impactTime + 500
    /\ RelMs = 2000 => stillStartTime = 0
    /\ RelMs >= 2005 => stillStartTime = impactTime + 2005
    /\ fired <=> RelMs = 5010
    /\ RelMs < 5010 => falls = 0
    /\ RelMs >= 5010 => (falls = 1 /\ state = "POST_FALL")
    /\ (ran /\ prevState = "IMPACT_DETECTED" /\ AngleHolds
          /\ gyroMag(sample) >= MOTION_THRESHOLD /\ state = "IMPACT_DETECTED")
          => stillStartTime = 0

\* C4 witness: the fall event of the interrupted scenario
C4_Witness == fired /\ RelMs = 5010 /\ stillStartTime = impactTime + 2005

\* C5: recovery from POST_FALL: a tick that starts in POST_FALL ends in NORMAL
\* exactly if the gyro magnitude exceeds twice MOTION_THRESHOLD, otherwise the
\* state stays POST_FALL, whatever the acceleration and orientation; no fall
\* event is emitted.
C5_PostFallRecovery ==
    (ran /\ prevState = "POST_FALL") =>
        /\ state \in {"NORMAL", "POST_FALL"}
        /\ state = "NORMAL" <=> gyroMag(sample) > 2 * MOTION_THRESHOLD
        /\ ~fired

\* C5 witness: a tick in POST_FALL with gyro magnitude exactly at the threshold
C5_Witness ==
    /\ ran /\ prevState = "POST_FALL" /\ state = "POST_FALL"
    /\ gyroMag(sample) = 2 * MOTION_THRESHOLD

\* C6 (as claimed): when the acceleration magnitude has risen above the
\* threshold exactly once, NORMAL -> IMPACT_DETECTED has happened exactly once,
\* with the baseline equal to the orientation of the transition's tick.
C6_ArmsExactlyOnce ==
    /\ crossings = 1 => arms = 1
    /\ Armed => (pitchBefore = pitch /\ rollBefore = roll)

\* C6 (amended): a tick that starts in NORMAL takes NORMAL -> IMPACT_DETECTED
\* exactly if its acceleration magnitude is above the threshold, capturing the
\* orientation and time of that tick; so after one rise above the threshold
\* the transition has happened at least once, and once more for each return to
\* NORMAL (timeout or recovery) that the acceleration outlasts.
C6_ArmsOnEveryNormalTickAbove ==
    /\ (ran /\ prevState = "NORMAL") =>
          /\ state \in {"NORMAL", "IMPACT_DETECTED"}
          /\ state = "IMPACT_DETECTED" <=> accelMag(sample) > IMPACT_THRESHOLD_G
    /\ Armed => (pitchBefore = pitch /\ rollBefore = roll /\ impactTime = NowMs)
    /\ crossings = 1 => (arms >= 1 /\ arms <= 1 + returns)

\* C6 witness: one rise above the threshold, armed a second time after a
\* return to NORMAL, with a non-zero baseline captured
C6_Witness == crossings = 1 /\ arms = 2 /\ Armed /\ pitchBefore # 0

\* C7: every fall event moves the machine to POST_FALL: after a tick that
\* called triggerFall() the state is POST_FALL.
C7_FallMovesToPostFall == fired => state = "POST_FALL"

\* C8: tie-break between timeout and confirmation: on a tick in
\* IMPACT_DETECTED with the angle and stillness conditions holding, the
\* stillness window exceeded and the impact timeout exceeded, the timeout is
\* still applied: the state after the tick is NORMAL, the timer cleared.
C8_TimeoutAppliedOnTie ==
    (/\ ran /\ prevState = "IMPACT_DETECTED"
     /\ AngleHolds
     /\ gyroMag(sample) < MOTION_THRESHOLD
     /\ prevStill # 0
     /\ NowMs - prevStill > INACTIVITY_TIME_MS
     /\ NowMs - impactTime > IMPACT_TIMEOUT_MS)
       => (state = "NORMAL" /\ stillStartTime = 0)

\* C8 witness: a tick on which both conditions are true
C8_Witness ==
    /\ ran /\ prevState = "IMPACT_DETECTED" /\ AngleHolds
    /\ gyroMag(sample) < MOTION_THRESHOLD
    /\ prevStill # 0 /\ NowMs - prevStill > INACTIVITY_TIME_MS
    /\ NowMs - impactTime > IMPACT_TIMEOUT_MS
    /\ state = "NORMAL"

\* C9: the stillness timestamp is unset after every tick that ends outside
\* IMPACT_DETECTED.
C9_StillClearedOutsideImpact == state # "IMPACT_DETECTED" => stillStartTime = 0

\* C10: a tick whose sensor read failed changes neither pitch, roll, state,
\* impactTime, stillStartTime nor the baseline, and emits no fall event.
C10_FailedReadSkipsTick ==
    [][(ran' /\ ~readOk') =>
          (/\ UNCHANGED <<pitch, roll, state, impactTime, stillStartTime,
                          pitchBefore, rollBefore>>
           /\ ~fired')]_vars

\* C11: when mpu.begin() fails, setup() reports the failure to its caller and
\* terminates: the sketch is never left spinning inside setup().
C11_FailedSetupReturns == pc # "halt"

C13_AnglesWithinRange ==
    (ran /\ InRange(sample)) => (abs(pitch) <= 180000 /\ abs(roll) <= 180000)

\* C14: a call of loop() is processed only when at least
\* 1000000 / SAMPLE_RATE_HZ microseconds have passed since the previously
\* processed tick, also when micros() has wrapped around in between, and a call
\* of loop() inside the interval changes no state and emits nothing.
C14_GateKeepsInterval ==
    [][/\ (ran' /\ ticks >= 1) => clock' - tickClock >= SampleInterval
       /\ (calls' # calls /\ ~ran') => (UNCHANGED progVars /\ ~fired')]_vars

\* C14 witness: a processed tick after the wrap of micros() whose predecessor
\* was processed before the wrap
C14_Witness ==
    /\ ran /\ ticks >= 2
    /\ prevTickClock < MicrosWrap /\ clock >= MicrosWrap
    /\ lastSampleMicros < micros(prevTickClock)
    /\ clock - prevTickClock >= SampleInterval

\* C15: the classifier starts in NORMAL; a tick leaves the state as it is or
\* takes one of NORMAL -> IMPACT_DETECTED, IMPACT_DETECTED -> NORMAL,
\* IMPACT_DETECTED -> POST_FALL, POST_FALL -> NORMAL, never NORMAL -> POST_FALL
\* nor POST_FALL -> IMPACT_DETECTED; a fall event is emitted only on a tick
\* that starts in IMPACT_DETECTED.
C15_PermittedTransitions ==
    /\ calls = 0 => state = "NORMAL"
    /\ \/ state = prevState
       \/ <<prevState, state>> \in {<<"NORMAL", "IMPACT_DETECTED">>,
                                   <<"IMPACT_DETECTED", "NORMAL">>,
                                   <<"IMPACT_DETECTED", "POST_FALL">>,
                                   <<"POST_FALL", "NORMAL">>}
    /\ fired => prevState = "IMPACT_DETECTED"

\* C15 witness: a run through NORMAL -> IMPACT_DETECTED -> POST_FALL -> NORMAL
C15_Witness ==
    /\ ran /\ prevState = "POST_FALL" /\ state = "NORMAL"
    /\ arms = 1 /\ falls = 1 /\ returns = 1

\* C16: after every processed tick that ends in IMPACT_DETECTED, no more than
\* IMPACT_TIMEOUT_MS have passed since impactTime: the first tick later than
\* that leaves IMPACT_DETECTED.
C16_NoStuckImpactDetected ==
    (ran /\ state = "IMPACT_DETECTED") => NowMs - impactTime <= IMPACT_TIMEOUT_MS

\* C16 witness: a tick later than the timeout, with the stillness window
\* running and not yet confirmed, that leaves IMPACT_DETECTED for NORMAL
C16_Witness ==
    /\ ran /\ prevState = "IMPACT_DETECTED" /\ state = "NORMAL" /\ ~fired
    /\ prevStill # 0 /\ gyroMag(sample) < MOTION_THRESHOLD
    /\ NowMs - impactTime > IMPACT_TIMEOUT_MS

\* C17: stillStartTime is 0 whenever the state is NORMAL, so it is 0 at the end
\* of every tick that takes NORMAL -> IMPACT_DETECTED and each episode starts
\* with the stillness timer unset.
C17_EpisodeStartsUnset ==
    /\ state = "NORMAL" => stillStartTime = 0
    /\ (ran /\ prevState = "NORMAL" /\ state = "IMPACT_DETECTED") => stillStartTime = 0

\* C17 witness: a second episode, armed after the first one has timed out
C17_Witness ==
    /\ ran /\ prevState = "NORMAL" /\ state = "IMPACT_DETECTED"
    /\ arms = 2 /\ returns = 1 /\ falls = 0
    /\ stillStartTime = 0

\* C18: a fall is confirmed only after uninterrupted stillness: when
\* triggerFall() is called, no tick processed since stillStartTime was set had
\* a gyro magnitude of MOTION_THRESHOLD or more, because such a tick always
\* restarts the timer, also when neither angle exceeds ANGLE_THRESHOLD_DEG.
C18_FallAfterUninterruptedStillness == fired => ~interrupted

\* C19: impactTime, pitchBefore and rollBefore are written only by the
\* transition NORMAL -> IMPACT_DETECTED: a tick that starts in IMPACT_DETECTED
\* or POST_FALL leaves all three unchanged, also when it carries a second
\* acceleration spike.
C19_BaselineFrozen ==
    [][/\ state # "NORMAL" => UNCHANGED <<impactTime, pitchBefore, rollBefore>>
       /\ ~(UNCHANGED <<impactTime, pitchBefore, rollBefore>>) =>
             (state = "NORMAL" /\ state' = "IMPACT_DETECTED")]_vars

\* C19 witness: a second spike in IMPACT_DETECTED, after the orientation has
\* changed, that kept the impact time and the baseline
C19_Witness ==
    /\ ran /\ prevState = "IMPACT_DETECTED" /\ state = "IMPACT_DETECTED"
    /\ accelMag(sample) > IMPACT_THRESHOLD_G
    /\ NowMs > impactTime
    /\ pitchBefore # pitch

\* C20: a fall event is emitted only on a tick strictly more than
\* INACTIVITY_TIME_MS after the impactTime of the current episode, because the
\* stillness timer, once set in IMPACT_DETECTED, is never earlier than
\* impactTime.
C20_MinimumDelay ==
    /\ fired => NowMs - impactTime > INACTIVITY_TIME_MS
    /\ (state = "IMPACT_DETECTED" /\ stillStartTime # 0) => stillStartTime >= impactTime
    /\ fired => (prevState = "IMPACT_DETECTED" /\ prevStill >= impactTime)

\* C20 witness: a fall event whose stillness window started after the impact
C20_Witness ==
    /\ fired /\ prevStill > impactTime
    /\ NowMs - prevStill > INACTIVITY_TIME_MS
    /\ NowMs - impactTime > INACTIVITY_TIME_MS

====
